---- MODULE Spec2Model ----
(***************************************************************************)
(* Model of L1BMODIS.py: band location, calibration and masking of MODIS   *)
(* Level-1B swath data, the geolocation loader and the legacy loader.      *)
(*                                                                         *)
(* The module has no state of its own: every operation opens a file, reads *)
(* from it and returns.  The state of the model is the record of one call: *)
(* which operation ran, on which inputs, what it returned or raised, what  *)
(* it printed and how many of the file handles it opened are still open.   *)
(*                                                                         *)
(* Numbers.  Raw samples are digital counts 0 .. NumLevels-1.  A double is *)
(* a record [nan, v]: either the "no data" value NaN or a number v.  Scale *)
(* and offset are integers, so (v - offset) * scale is exact.  Band-number *)
(* tables hold half-integers (13, 13.5, 14, 14.5 in the real files); an    *)
(* entry is stored as twice its value, and astype(int) halves it rounding  *)
(* toward zero.  Array indices are Python's, starting at 0.                *)
(***************************************************************************)
EXTENDS Integers, Sequences, FiniteSets, TLC

VARIABLES pc, op, inp, out, err, handles, printed

vars == <<pc, op, inp, out, err, handles, printed>>

\* ------------------------------------------------------------------ bounds
\* total number of band entries over the four band-number tables of a file
MaxBands == 3
\* number of distinct digital counts: raw samples are 0 .. NumLevels-1
NumLevels == 4
\* number of cells of a (flattened) 2-D grid
NumCells == 2

\* ------------------------------------------------------------------ values
None == "None"
OK == "ok"
\* error raised by pyhdf when a dataset or an attribute does not exist
HDF4Error == "HDF4Error"
\* Python's error for reading a local variable that was never assigned
UnboundLocalError == "UnboundLocalError"
\* Python's error of list.index for a value that is not in the list
ValueError == "ValueError"
\* Python's error for an index past the end of an axis
IndexError == "IndexError"

NaN == [nan |-> TRUE, v |-> 0]
Num(x) == [nan |-> FALSE, v |-> x]

\* IEEE comparisons: every comparison with NaN is false
Gt(a, b) == ~a.nan /\ ~b.nan /\ a.v > b.v
Lt(a, b) == ~a.nan /\ ~b.nan /\ a.v < b.v
Eq(a, b) == ~a.nan /\ ~b.nan /\ a.v = b.v
\* IEEE arithmetic: NaN propagates
Sub(a, b) == IF a.nan \/ b.nan THEN NaN ELSE Num(a.v - b.v)
Mul(a, b) == IF a.nan \/ b.nan THEN NaN ELSE Num(a.v * b.v)

\* ndarray.astype(np.double) of an array of digital counts
AsDouble(plane) == [c \in DOMAIN plane |-> Num(plane[c])]

\* ndarray.astype(int) of a band-number table (entries stored doubled)
AsInt(numbers) == [i \in DOMAIN numbers |-> numbers[i] \div 2]

\* ------------------------------------------------------------------ names
band_lists == <<"Band_250M", "Band_500M", "Band_1KM_RefSB", "Band_1KM_Emissive">>
band_names == <<"EV_250_Aggr1km_RefSB", "EV_500_Aggr1km_RefSB", "EV_1KM_RefSB", "EV_1KM_Emissive">>

\* the characters of a field name, as far as the test 'Ref' in field reads them
FieldChars(field) ==
    CASE field = "EV_250_Aggr1km_RefSB" ->
           <<"E","V","_","2","5","0","_","A","g","g","r","1","k","m","_","R","e","f","S","B">>
      [] field = "EV_500_Aggr1km_RefSB" ->
           <<"E","V","_","5","0","0","_","A","g","g","r","1","k","m","_","R","e","f","S","B">>
      [] field = "EV_1KM_RefSB" ->
           <<"E","V","_","1","K","M","_","R","e","f","S","B">>
      [] field = "EV_1KM_Emissive" ->
           <<"E","V","_","1","K","M","_","E","m","i","s","s","i","v","e">>
      [] OTHER -> <<>>

\* Python's  sub in s  for strings
Contains(s, sub) ==
    \E k \in 0..(Len(s) - Len(sub)) : \A j \in 1..Len(sub) : s[k + j] = sub[j]

\* position (from 1) of a name in a tuple of names, 0 if absent
PosOf(names, name) ==
    IF \E k \in DOMAIN names : names[k] = name
    THEN CHOOSE k \in DOMAIN names : names[k] = name
    ELSE 0

\* ------------------------------------------------------------------ files
(* A band file is the record                                               *)
(*   tables  : the four band-number tables, in the order of band_lists,    *)
(*             each entry twice the band number it stands for;             *)
(*   names   : the band_names attribute of its sample datasets, a string   *)
(*             given as its sequence of characters;                        *)
(*   seed    : selects the digital counts stored in the sample datasets;   *)
(*   fill    : the _FillValue attribute of its sample datasets;            *)
(*   hasFill : whether the sample datasets carry a _FillValue attribute.   *)
(* A sample dataset has one plane per entry of its band-number table.      *)

\* f.datasets().keys()
Datasets(file) == {band_lists[k] : k \in 1..4} \cup {band_names[k] : k \in 1..4}

\* hdf.select(key)[:] for a band-number table
Table(file, key) == file.tables[PosOf(band_lists, key)]

\* length of the band axis (axis 0) of a sample dataset
NumPlanes(file, field) == Len(file.tables[PosOf(band_names, field)])

\* the digital count at plane index (from 0) and cell c (from 1) of a field
Sample(file, field, index, c) ==
    (file.seed + 2 * (PosOf(band_names, field) - 1) + index + c) % NumLevels

\* hdf.select(field)[:] for a sample dataset: planes, each a grid of cells
FieldData(file, field) ==
    [i \in 1..NumPlanes(file, field) |->
        [c \in 1..NumCells |-> Sample(file, field, i - 1, c)]]

\* the attribute names a sample dataset carries: the reflective fields have
\* both calibration families, the emissive field only the radiance one
AttrNames(file, field) ==
    {"valid_range", "band_names", "radiance_scales", "radiance_offsets"}
      \cup (IF file.hasFill THEN {"_FillValue"} ELSE {})
      \cup (IF field # "EV_1KM_Emissive"
            THEN {"reflectance_scales", "reflectance_offsets"} ELSE {})

\* the value of an attribute of a sample dataset; the per-band sequences
\* have one element per plane and differ by field, by index and by family
AttrValue(file, field, attr) ==
    LET f == PosOf(band_names, field)
        n == NumPlanes(file, field)
    IN  CASE attr = "valid_range"         -> <<1, NumLevels - 2>>
          [] attr = "_FillValue"          -> file.fill
          [] attr = "band_names"          -> file.names
          [] attr = "reflectance_scales"  -> [i \in 1..n |-> 10 * f + i]
          [] attr = "reflectance_offsets" -> [i \in 1..n |-> f - i]
          [] attr = "radiance_scales"     -> [i \in 1..n |-> 100 + 10 * f + i]
          [] attr = "radiance_offsets"    -> [i \in 1..n |-> 50 + f - i]

\* ------------------------------------------------------------------ helpers
\* grab_attr(dataset, attr): the attribute, or pyhdf's error when absent
grab_attr(file, field, attr) ==
    IF attr \in AttrNames(file, field)
    THEN [err |-> OK, val |-> AttrValue(file, field, attr)]
    ELSE [err |-> HDF4Error, val |-> None]

\* mutant of FirstIndex: the position counted from 1
FirstIndex_fromOne(numbers, band) ==
    CHOOSE i \in DOMAIN numbers :
        /\ numbers[i] = band
        /\ \A j \in 1..(i - 1) : numbers[j] # band

\* np.where(numbers == band)[0][0]: index (from 0) of the first occurrence
FirstIndex(numbers, band) ==
    (CHOOSE i \in DOMAIN numbers :
        /\ numbers[i] = band
        /\ \A j \in 1..(i - 1) : numbers[j] # band) - 1

\* band in numbers
InArray(band, numbers) == \E i \in DOMAIN numbers : numbers[i] = band

\* mutant of LocateFrom: the loop stops at the first group holding the band
RECURSIVE LocateFrom_firstGroup(_, _, _, _)
LocateFrom_firstGroup(file, band, k, loc) ==
    IF k > Len(band_lists) THEN loc
    ELSE LET numbers == AsInt(Table(file, band_lists[k]))
         IN  IF InArray(band, numbers)
             THEN [bound |-> TRUE, FIELD |-> band_names[k],
                   INDEX |-> FirstIndex(numbers, band)]
             ELSE LocateFrom_firstGroup(file, band, k + 1, loc)

\* one pass of the second loop of locate_band over the keys from k on; loc
\* holds the local variables FIELD and INDEX, unbound until first assigned
RECURSIVE LocateFrom(_, _, _, _)
LocateFrom(file, band, k, loc) ==
    IF k > Len(band_lists) THEN loc
    ELSE LET numbers == AsInt(Table(file, band_lists[k]))
         IN  IF InArray(band, numbers)
             THEN LocateFrom(file, band, k + 1,
                     [bound |-> TRUE, FIELD |-> band_names[k],
                      INDEX |-> FirstIndex(numbers, band)])
             ELSE LocateFrom(file, band, k + 1, loc)

\* locate_band(hdf, band): the pair (FIELD, INDEX), or the error of
\* returning local variables that no iteration assigned
locate_band(file, band) ==
    LET loc == LocateFrom(file, band, 1, [bound |-> FALSE, FIELD |-> None, INDEX |-> 0])
    IN  IF loc.bound
        THEN [err |-> OK, FIELD |-> loc.FIELD, INDEX |-> loc.INDEX]
        ELSE [err |-> UnboundLocalError, FIELD |-> None, INDEX |-> 0]

\* mutant of grab_scaling: the radiance attributes whatever the field name
grab_scaling_radiance(file, field, index) ==
    LET range   == grab_attr(file, field, "valid_range")
        fillval == grab_attr(file, field, "_FillValue")
        scales  == grab_attr(file, field, "radiance_scales")
        offsets == grab_attr(file, field, "radiance_offsets")
    IN  IF range.err # OK THEN [err |-> range.err, val |-> None]
        ELSE IF fillval.err # OK THEN [err |-> fillval.err, val |-> None]
        ELSE [err |-> OK,
              val |-> [validmin |-> range.val[1], validmax |-> range.val[2],
                       fillval |-> fillval.val,
                       scale |-> scales.val[index + 1],
                       offset |-> offsets.val[index + 1]]]

\* grab_scaling(hdf, field, index): the calibration record of one band
grab_scaling(file, field, index) ==
    LET range   == grab_attr(file, field, "valid_range")
        fillval == grab_attr(file, field, "_FillValue")
        family  == IF Contains(FieldChars(field), <<"R", "e", "f">>)
                   THEN "reflectance" ELSE "radiance"
        scales  == grab_attr(file, field,
                     IF family = "reflectance" THEN "reflectance_scales" ELSE "radiance_scales")
        offsets == grab_attr(file, field,
                     IF family = "reflectance" THEN "reflectance_offsets" ELSE "radiance_offsets")
    IN  IF range.err # OK THEN [err |-> range.err, val |-> None]
        ELSE IF fillval.err # OK THEN [err |-> fillval.err, val |-> None]
        ELSE IF scales.err # OK THEN [err |-> scales.err, val |-> None]
        ELSE IF offsets.err # OK THEN [err |-> offsets.err, val |-> None]
        ELSE [err |-> OK,
              val |-> [validmin |-> range.val[1], validmax |-> range.val[2],
                       fillval |-> fillval.val,
                       scale |-> scales.val[index + 1],
                       offset |-> offsets.val[index + 1]]]

\* mutant of Invalid: the fill value is not tested
Invalid_rangeOnly(band_data, scaling) ==
    [c \in DOMAIN band_data |->
        \/ Gt(band_data[c], Num(scaling.validmax))
        \/ Lt(band_data[c], Num(scaling.validmin))]

\* the boolean array  invalid  of mask_bad_data
Invalid(band_data, scaling) ==
    [c \in DOMAIN band_data |->
        \/ Gt(band_data[c], Num(scaling.validmax))
        \/ Lt(band_data[c], Num(scaling.validmin))
        \/ Eq(band_data[c], Num(scaling.fillval))]

\* mask_bad_data(band_data, scaling, apply_mask): invalid cells become NaN,
\* then the affine transform runs over the whole grid; with apply_mask the
\* result is a masked array whose mask is np.isnan of the data
mask_bad_data(band_data, scaling, apply_mask) ==
    LET invalid     == Invalid(band_data, scaling)
        masked_data == [c \in DOMAIN band_data |->
                          IF invalid[c] THEN NaN ELSE band_data[c]]
        offset_data == [c \in DOMAIN band_data |->
                          Mul(Sub(masked_data[c], Num(scaling.offset)), Num(scaling.scale))]
    IN  [data   |-> offset_data,
         masked |-> apply_mask,
         mask   |-> [c \in DOMAIN band_data |-> apply_mask /\ offset_data[c].nan]]

\* a bare ndarray (no mask wrapper)
Bare(data) == [data |-> data, masked |-> FALSE, mask |-> [c \in DOMAIN data |-> FALSE]]

\* ------------------------------------------------------------------ operations
(* Each operation is an operator from its arguments to the record          *)
(*   err     : OK, or the error that ended the call;                       *)
(*   val     : the value returned (None when the call raised);             *)
(*   handles : how many of the handles it opened it left open;             *)
(*   printed : what it printed.                                            *)

\* the attributes of any dataset: band-number tables carry none the code reads
DatasetAttr(file, dataset, attr) ==
    IF PosOf(band_names, dataset) # 0
    THEN grab_attr(file, dataset, attr)
    ELSE [err |-> HDF4Error, val |-> None]

\* get_hdf_data(file, dataset, attr): f.end() is reached only when neither
\* f.select nor data.attr raised
get_hdf_data(file, dataset, attr) ==
    IF dataset \notin Datasets(file)
    THEN [err |-> HDF4Error, val |-> None, handles |-> 1, printed |-> <<>>]
    ELSE IF attr = None
    THEN [err |-> OK,
          val |-> IF PosOf(band_names, dataset) # 0
                  THEN FieldData(file, dataset) ELSE Table(file, dataset),
          handles |-> 0, printed |-> <<>>]
    ELSE LET a == DatasetAttr(file, dataset, attr)
         IN  IF a.err # OK
             THEN [err |-> a.err, val |-> None, handles |-> 1, printed |-> <<>>]
             ELSE [err |-> OK, val |-> a.val, handles |-> 0, printed |-> <<>>]

\* print_hdf_contents(file): prints and returns the dataset names; the
\* function has no f.end()
print_hdf_contents(file) ==
    [err |-> OK, val |-> Datasets(file), handles |-> 1,
     printed |-> <<Datasets(file)>>]

\* geolon[geolon<0] += 360
NormalizeLon(geolon) ==
    [c \in DOMAIN geolon |-> IF geolon[c] < 0 THEN geolon[c] + 360 ELSE geolon[c]]

(* A geolocation file is the record                                        *)
(*   openable : whether SD(geofile) succeeds;                              *)
(*   datasets : its datasets by position, each a grid of degrees.          *)

\* get_MODISgeo(geofile): when the file cannot be opened the error is only
\* printed and f stays unassigned, so f.select(0) raises
get_MODISgeo(geofile) ==
    IF ~geofile.openable
    THEN [err |-> UnboundLocalError, val |-> None, handles |-> 0,
          printed |-> <<"error opening">>]
    ELSE IF Len(geofile.datasets) < 2
    THEN [err |-> HDF4Error, val |-> None, handles |-> 1, printed |-> <<>>]
    ELSE LET geolat == geofile.datasets[1]
             geolon == NormalizeLon(geofile.datasets[2])
         IN  [err |-> OK, val |-> <<geolon, geolat>>, handles |-> 0, printed |-> <<>>]

\* mutant of load_MODIS1KMband: the data are scaled and masked whatever
\* apply_scaling says
load_MODIS1KMband_alwaysScaled(file, band, apply_scaling, apply_mask) ==
    LET loc == locate_band(file, band)
    IN  IF loc.err # OK
        THEN [err |-> loc.err, val |-> None, handles |-> 1, printed |-> <<>>]
        ELSE
        LET band_data == AsDouble(FieldData(file, loc.FIELD)[loc.INDEX + 1])
            scaling   == grab_scaling(file, loc.FIELD, loc.INDEX)
        IN  IF scaling.err # OK
            THEN [err |-> scaling.err, val |-> None, handles |-> 1, printed |-> <<>>]
            ELSE [err |-> OK,
                  val |-> mask_bad_data(band_data, scaling.val, apply_mask),
                  handles |-> 0, printed |-> <<>>]

\* load_MODIS1KMband(file, band, apply_scaling, apply_mask): hdf.end() is the
\* last statement before the return, reached only when nothing raised
load_MODIS1KMband(file, band, apply_scaling, apply_mask) ==
    LET loc == locate_band(file, band)
    IN  IF loc.err # OK
        THEN [err |-> loc.err, val |-> None, handles |-> 1, printed |-> <<>>]
        ELSE
        LET band_data == AsDouble(FieldData(file, loc.FIELD)[loc.INDEX + 1])
        IN  IF apply_scaling
            THEN LET scaling == grab_scaling(file, loc.FIELD, loc.INDEX)
                 IN  IF scaling.err # OK
                     THEN [err |-> scaling.err, val |-> None, handles |-> 1,
                           printed |-> <<>>]
                     ELSE [err |-> OK,
                           val |-> mask_bad_data(band_data, scaling.val, apply_mask),
                           handles |-> 0, printed |-> <<>>]
            ELSE [err |-> OK, val |-> Bare(band_data), handles |-> 0, printed |-> <<>>]

\* str.split(","): the pieces between the commas, empty pieces included
RECURSIVE SplitFrom(_, _, _)
SplitFrom(chars, piece, pieces) ==
    IF chars = <<>> THEN Append(pieces, piece)
    ELSE IF Head(chars) = ","
    THEN SplitFrom(Tail(chars), <<>>, Append(pieces, piece))
    ELSE SplitFrom(Tail(chars), Append(piece, Head(chars)), pieces)

Split(chars) == SplitFrom(chars, <<>>, <<>>)

\* list.index(x): index (from 0) of the first occurrence, -1 for ValueError
ListIndex(list, x) ==
    IF InArray(x, list) THEN FirstIndex(list, x) ELSE -1

\* load_MODISband_old(file, dataset, band, refrad): every read goes through
\* get_hdf_data, which opens the file anew; a refrad that is neither
\* 'reflectance' nor 'radiance' prints a message and leaves scales and
\* offsets unassigned, so the affine transform raises after the mask is made
load_MODISband_old(file, dataset, band, refrad) ==
    LET names    == get_hdf_data(file, dataset, "band_names")
        data     == get_hdf_data(file, dataset, None)
        position == ListIndex(Split(names.val), band)
        family   == IF refrad = "reflectance" THEN "reflectance" ELSE "radiance"
        scales   == get_hdf_data(file, dataset,
                      IF family = "reflectance" THEN "reflectance_scales" ELSE "radiance_scales")
        offsets  == get_hdf_data(file, dataset,
                      IF family = "reflectance" THEN "reflectance_offsets" ELSE "radiance_offsets")
        known    == refrad \in {"reflectance", "radiance"}
        message  == IF known THEN <<>> ELSE <<"REFLECTANCE OR RADIANCE NOT SPECIFIED">>
        range    == get_hdf_data(file, dataset, "valid_range")
        fillval  == get_hdf_data(file, dataset, "_FillValue")
        Raise(e, h, p) == [err |-> e, val |-> None, handles |-> h, printed |-> p]
    IN  IF names.err # OK THEN Raise(names.err, names.handles, <<>>)
        ELSE IF data.err # OK THEN Raise(data.err, data.handles, <<>>)
        ELSE IF position < 0 THEN Raise(ValueError, 0, <<>>)
        ELSE IF position >= Len(data.val) THEN Raise(IndexError, 0, <<>>)
        ELSE IF known /\ scales.err # OK THEN Raise(scales.err, scales.handles, <<>>)
        ELSE IF known /\ offsets.err # OK THEN Raise(offsets.err, offsets.handles, <<>>)
        ELSE IF range.err # OK THEN Raise(range.err, range.handles, message)
        ELSE IF fillval.err # OK THEN Raise(fillval.err, fillval.handles, message)
        ELSE IF ~known THEN Raise(UnboundLocalError, 0, message)
        ELSE [err |-> OK,
              val |-> mask_bad_data(AsDouble(data.val[position + 1]),
                         [validmin |-> range.val[1], validmax |-> range.val[2],
                          fillval |-> fillval.val,
                          scale |-> scales.val[position + 1],
                          offset |-> offsets.val[position + 1]],
                         TRUE),
              handles |-> 0, printed |-> <<>>]

\* ------------------------------------------------------------------ inputs
\* band-number entries, doubled: bands 1, 1.5 and 2
HalfBands == {2, 3, 4}
\* requested band numbers: two that tables can hold and one that none holds
Bands == {1, 2, 3}

\* the lengths of the four tables of a file
TableLens == {l \in [1..4 -> 0..MaxBands] : l[1] + l[2] + l[3] + l[4] <= MaxBands}

\* the band-number tables of a file, in the order of band_lists
TableSets ==
    UNION {{<<a, b, c, d>> : a \in [1..l[1] -> HalfBands], b \in [1..l[2] -> HalfBands],
                             c \in [1..l[3] -> HalfBands], d \in [1..l[4] -> HalfBands]}
           : l \in TableLens}

\* band files for the table-based path
Files ==
    {[tables |-> t, names |-> <<"1">>, seed |-> s, fill |-> fv.fill, hasFill |-> fv.has]
       : t \in TableSets, s \in {0, 1},
         fv \in {[fill |-> NumLevels - 1, has |-> TRUE], [fill |-> 1, has |-> TRUE],
                 [fill |-> 0, has |-> FALSE]}}

\* band files that differ only in their tables
TableFiles ==
    {[tables |-> t, names |-> <<"1">>, seed |-> 0, fill |-> NumLevels - 1, hasFill |-> TRUE]
       : t \in TableSets}

\* band_names attributes: "1,2", "1,2,3", "12", "2,,1" and the empty string
NameStrings ==
    {<<"1", ",", "2">>, <<"1", ",", "2", ",", "3">>, <<"1", "2">>,
     <<"2", ",", ",", "1">>, <<>>}

\* band labels
Labels == {<<"1">>, <<"2">>, <<"3">>, <<"1", "2">>, <<>>}

\* band files for the legacy path: every sample dataset has n planes
LegacyFiles ==
    {[tables |-> [k \in 1..4 |-> [i \in 1..n |-> 2 * i]], names |-> ns, seed |-> s,
      fill |-> NumLevels - 1, hasFill |-> h]
       : n \in 0..MaxBands, ns \in NameStrings, s \in {0, 1}, h \in BOOLEAN}

\* grids of digital counts, cast to double
Grids == {AsDouble(g) : g \in [1..NumCells -> 0..(NumLevels - 1)]}

\* calibration records
Scalings ==
    {[validmin |-> lo, validmax |-> hi, fillval |-> fv, scale |-> sc, offset |-> of]
       : lo \in {0, 1}, hi \in {NumLevels - 2, NumLevels - 1}, fv \in 0..(NumLevels - 1),
         sc \in {-1, 0, 2}, of \in {0, 1}}

\* longitudes, in degrees: the valid range -180..180 of the geolocation
\* product, its fill value -999, and values past one turn
Lons == {-999, -360, -180, -10, -1, 0, 180, 359, 360}
Lats == {-45, 30}

GeoFiles ==
    {[openable |-> FALSE, datasets |-> <<>>]}
      \cup {[openable |-> TRUE, datasets |-> <<lat>>] : lat \in [1..NumCells -> Lats]}
      \cup {[openable |-> TRUE, datasets |-> <<lat, lon>>]
              : lat \in [1..NumCells -> Lats], lon \in [1..NumCells -> Lons]}

\* ------------------------------------------------------------------ state machine
Init ==
    /\ pc = "idle"
    /\ op = None
    /\ inp = None
    /\ out = None
    /\ err = None
    /\ handles = 0
    /\ printed = <<>>

\* the call of operation name on arguments args with outcome r
Call(name, args, r) ==
    /\ pc' = "done"
    /\ op' = name
    /\ inp' = args
    /\ out' = r.val
    /\ err' = r.err
    /\ handles' = r.handles
    /\ printed' = r.printed

LocateBand ==
    /\ pc = "idle"
    /\ \E file \in TableFiles, band \in Bands :
           LET r == locate_band(file, band)
           IN  Call("locate_band", [file |-> file, band |-> band],
                    [err |-> r.err, val |-> <<r.FIELD, r.INDEX>>, handles |-> 0,
                     printed |-> <<>>])

MaskBadData ==
    /\ pc = "idle"
    /\ \E band_data \in Grids, scaling \in Scalings, apply_mask \in BOOLEAN :
           Call("mask_bad_data",
                [band_data |-> band_data, scaling |-> scaling, apply_mask |-> apply_mask],
                [err |-> OK, val |-> mask_bad_data(band_data, scaling, apply_mask),
                 handles |-> 0, printed |-> <<>>])

LoadMODIS1KMband ==
    /\ pc = "idle"
    /\ \E file \in Files, band \in Bands, apply_scaling \in BOOLEAN, apply_mask \in BOOLEAN :
           Call("load_MODIS1KMband",
                [file |-> file, band |-> band, apply_scaling |-> apply_scaling,
                 apply_mask |-> apply_mask],
                load_MODIS1KMband(file, band, apply_scaling, apply_mask))

GetMODISgeo ==
    /\ pc = "idle"
    /\ \E geofile \in GeoFiles :
           Call("get_MODISgeo", [geofile |-> geofile], get_MODISgeo(geofile))

LoadMODISbandOld ==
    /\ pc = "idle"
    /\ \E file \in LegacyFiles, dataset \in {"EV_1KM_RefSB", "EV_1KM_Emissive", "EV_Band26"},
          band \in Labels, refrad \in {"reflectance", "radiance", "emissive"} :
           Call("load_MODISband_old",
                [file |-> file, dataset |-> dataset, band |-> band, refrad |-> refrad],
                load_MODISband_old(file, dataset, band, refrad))

GetHdfData ==
    /\ pc = "idle"
    /\ \E file \in LegacyFiles,
          dataset \in {"Band_250M", "EV_1KM_RefSB", "EV_1KM_Emissive", "EV_Band26"},
          attr \in {None, "valid_range", "reflectance_scales", "long_name"} :
           Call("get_hdf_data", [file |-> file, dataset |-> dataset, attr |-> attr],
                get_hdf_data(file, dataset, attr))

PrintHdfContents ==
    /\ pc = "idle"
    /\ \E file \in LegacyFiles :
           Call("print_hdf_contents", [file |-> file], print_hdf_contents(file))

\* the caller is done with the result: every call starts from nothing
DropResult ==
    /\ pc = "done"
    /\ pc' = "idle"
    /\ op' = None
    /\ inp' = None
    /\ out' = None
    /\ err' = None
    /\ handles' = 0
    /\ printed' = <<>>

Next ==
    \/ LocateBand
    \/ MaskBadData
    \/ LoadMODIS1KMband
    \/ GetMODISgeo
    \/ LoadMODISbandOld
    \/ GetHdfData
    \/ PrintHdfContents
    \/ DropResult

Spec == Init /\ [][Next]_vars

\* ------------------------------------------------------------------ properties
\* the band-number tables as locate_band reads them (cast to integer)
Numbers(file, k) == AsInt(file.tables[k])

\* the groups (positions in band_lists) whose table holds the band
GroupsWith(file, band) ==
    {k \in 1..4 : \E i \in DOMAIN Numbers(file, k) : Numbers(file, k)[i] = band}

Located == pc = "done" /\ op = "locate_band"

\* C1: for every band number that occurs in at least one of the four
\* band-number tables, locate_band returns (FIELD, INDEX) such that the table
\* of FIELD's group, as read (cast to integer), holds the band at INDEX.
C1_LocatedEntryIsBand ==
    (Located /\ GroupsWith(inp.file, inp.band) # {}) =>
        /\ err = OK
        /\ PosOf(band_names, out[1]) # 0
        /\ LET numbers == Numbers(inp.file, PosOf(band_names, out[1]))
           IN  /\ out[2] + 1 \in DOMAIN numbers
               /\ numbers[out[2] + 1] = inp.band

\* a band found past the first position of its table
C1_Witness ==
    /\ Located
    /\ GroupsWith(inp.file, inp.band) # {}
    /\ err = OK
    /\ out[2] >= 1

\* C6: locate_band on a band number absent from every table fails with the
\* typed error BandNotFoundError.
C6_AbsentBandRaisesBandNotFound ==
    (Located /\ GroupsWith(inp.file, inp.band) = {}) => err = "BandNotFoundError"

\* C10: when the band occurs in more than one table, locate_band returns the
\* field of the last such group in iteration order and the index of the
\* first occurrence of the band inside that group's table.
C10_LastGroupFirstIndex ==
    (Located /\ Cardinality(GroupsWith(inp.file, inp.band)) > 1) =>
        LET groups  == GroupsWith(inp.file, inp.band)
            last    == CHOOSE k \in groups : \A j \in groups : j <= k
            numbers == Numbers(inp.file, last)
            first   == CHOOSE i \in DOMAIN numbers :
                          /\ numbers[i] = inp.band
                          /\ \A j \in DOMAIN numbers : numbers[j] = inp.band => i <= j
        IN  /\ err = OK
            /\ out = <<band_names[last], first - 1>>

\* the band is in two groups, and twice in the table of the last of them
C10_Witness ==
    /\ Located
    /\ err = OK
    /\ Cardinality(GroupsWith(inp.file, inp.band)) > 1
    /\ LET numbers == Numbers(inp.file, PosOf(band_names, out[1]))
       IN  \E i \in DOMAIN numbers : i > out[2] + 1 /\ numbers[i] = inp.band

\* whether a digital count is invalid under a calibration record
IsInvalid(v, validmin, validmax, fillval) == v = fillval \/ v > validmax \/ v < validmin

\* C2: a cell of the output of mask_bad_data is NaN if and only if its raw
\* value equals fill_value, or is above valid_max, or is below valid_min.
C2_NaNIffInvalid ==
    (pc = "done" /\ op = "mask_bad_data") =>
        \A c \in DOMAIN inp.band_data :
            out.data[c].nan <=>
                IsInvalid(inp.band_data[c].v, inp.scaling.validmin,
                          inp.scaling.validmax, inp.scaling.fillval)

\* one cell inside the valid range is NaN because it is the fill value, and
\* another cell is kept
C2_Witness ==
    /\ pc = "done" /\ op = "mask_bad_data"
    /\ \E c, d \in DOMAIN inp.band_data :
          /\ inp.band_data[c].v = inp.scaling.fillval
          /\ inp.band_data[c].v >= inp.scaling.validmin
          /\ inp.band_data[c].v <= inp.scaling.validmax
          /\ out.data[c].nan
          /\ ~out.data[d].nan

Loaded == pc = "done" /\ op = "load_MODIS1KMband" /\ err = OK

\* the group (position in band_lists) and index that hold the band loaded:
\* the last group whose table holds it, and its first position there
LoadedGroup == CHOOSE k \in GroupsWith(inp.file, inp.band) :
                  \A j \in GroupsWith(inp.file, inp.band) : j <= k
LoadedIndex ==
    LET numbers == Numbers(inp.file, LoadedGroup)
    IN  (CHOOSE i \in DOMAIN numbers :
            /\ numbers[i] = inp.band
            /\ \A j \in DOMAIN numbers : numbers[j] = inp.band => i <= j) - 1
\* the raw plane of that band
LoadedPlane == FieldData(inp.file, band_names[LoadedGroup])[LoadedIndex + 1]

\* C3: with apply_scaling, load_MODIS1KMband returns the plane at the located
\* index of the located field; a valid cell v holds (v - offset) * scale with
\* scale and offset taken at that index from the reflectance attributes of a
\* field whose name contains 'Ref' and from the radiance attributes
\* otherwise; invalid cells, fill-valued ones among them, are NaN.
C3_ScaledPlane ==
    (Loaded /\ inp.apply_scaling) =>
        LET field   == band_names[LoadedGroup]
            refl    == LoadedGroup \in {1, 2, 3}
            scale   == AttrValue(inp.file, field,
                          IF refl THEN "reflectance_scales" ELSE "radiance_scales")[LoadedIndex + 1]
            offset  == AttrValue(inp.file, field,
                          IF refl THEN "reflectance_offsets" ELSE "radiance_offsets")[LoadedIndex + 1]
        IN  /\ DOMAIN out.data = DOMAIN LoadedPlane
            /\ \A c \in DOMAIN LoadedPlane :
                  IF IsInvalid(LoadedPlane[c], 1, NumLevels - 2, inp.file.fill)
                  THEN out.data[c].nan
                  ELSE out.data[c] = Num((LoadedPlane[c] - offset) * scale)

\* a reflective band at an index past 0, with a fill-valued cell inside the
\* valid range and a valid cell
C3_Witness ==
    /\ Loaded /\ inp.apply_scaling
    /\ LoadedGroup \in {1, 2, 3}
    /\ LoadedIndex >= 1
    /\ \E c, d \in DOMAIN LoadedPlane :
          /\ LoadedPlane[c] = inp.file.fill
          /\ LoadedPlane[c] \in 1..(NumLevels - 2)
          /\ out.data[c].nan
          /\ ~out.data[d].nan

\* C9: without apply_scaling, load_MODIS1KMband returns the raw plane at the
\* located index, cast to double, cell for cell: no NaN, no scale, no offset,
\* no mask wrapper.
C9_RawPlane ==
    (Loaded /\ ~inp.apply_scaling) =>
        /\ DOMAIN out.data = DOMAIN LoadedPlane
        /\ \A c \in DOMAIN LoadedPlane : out.data[c] = Num(LoadedPlane[c])
        /\ ~out.masked
        /\ \A c \in DOMAIN out.mask : ~out.mask[c]

\* a raw plane returned with its fill-valued cell and an out-of-range cell,
\* the mask wrapper having been asked for
C9_Witness ==
    /\ Loaded /\ ~inp.apply_scaling /\ inp.apply_mask
    /\ inp.file.hasFill
    /\ \E c, d \in DOMAIN LoadedPlane :
          /\ LoadedPlane[c] = inp.file.fill
          /\ LoadedPlane[d] > NumLevels - 2
          /\ out.data[c] = Num(inp.file.fill)

GeoLoaded == pc = "done" /\ op = "get_MODISgeo" /\ err = OK

\* C4: every longitude get_MODISgeo returns is in [0, 360); a value below 0
\* has had 360 added once, a value at or above 0 is unchanged, and -10 has
\* become 350.  (The longitudes are the array the code names geolon.)
C4_LongitudeInRange ==
    GeoLoaded =>
        \A c \in DOMAIN out[1] :
            LET x == inp.geofile.datasets[2][c]
                y == out[1][c]
            IN  /\ 0 <= y /\ y < 360
                /\ x < 0 => y = x + 360
                /\ x >= 0 => y = x
                /\ x = -10 => y = 350

\* C7: get_MODISgeo returns (latitude, longitude): first the dataset at
\* position 0 unchanged, then the dataset at position 1 normalized.
C7_ReturnsLatThenLon ==
    GeoLoaded =>
        /\ out[1] = inp.geofile.datasets[1]
        /\ out[2] = [c \in DOMAIN inp.geofile.datasets[2] |->
                        IF inp.geofile.datasets[2][c] < 0
                        THEN inp.geofile.datasets[2][c] + 360
                        ELSE inp.geofile.datasets[2][c]]

\* C5: no public operation ends, by return or by error, with a file handle
\* it opened still open.
C5_NoHandleLeftOpen ==
    (pc = "done" /\ op \in {"get_hdf_data", "print_hdf_contents", "get_MODISgeo",
                            "load_MODIS1KMband", "load_MODISband_old"}) =>
        handles = 0

\* C8: load_MODISband_old with a refrad that is neither 'reflectance' nor
\* 'radiance' (its other arguments naming a band the file holds) fails with
\* InvalidArgumentError, prints nothing and produces no band data.
C8_BadRefradRaisesInvalidArgument ==
    (/\ pc = "done" /\ op = "load_MODISband_old"
     /\ inp.refrad \notin {"reflectance", "radiance"}
     /\ inp.dataset \in Datasets(inp.file)
     /\ inp.file.hasFill
     /\ \E i \in 1..NumPlanes(inp.file, inp.dataset) :
           i \in DOMAIN Split(inp.file.names) /\ Split(inp.file.names)[i] = inp.band)
    => /\ err = "InvalidArgumentError"
       /\ printed = <<>>
       /\ out = None

====
